---------------------------- MODULE Spec2Model ----------------------------
(***************************************************************************)
(* TwitchDropsFarmer: the Miner (orchestration loop, start/stop, status    *)
(* and log broadcast) of backend/core/miner.py, the store of               *)
(* backend/core/storage.py it writes to, and the device-code token poll of *)
(* backend/core/twitch.py.                                                 *)
(*                                                                         *)
(* Threads.  Request handlers (Callers) call Miner.start and Miner.stop;   *)
(* every start spawns a loop thread (Loops) that runs _mining_loop.  A     *)
(* step of a thread is the code it runs between two points where it        *)
(* blocks (a network call, a sleep, Thread.join); the test of is_running   *)
(* at the head of start and stop is a step of its own, and so are the      *)
(* assignments of _switch_to_game, which another thread can follow before  *)
(* the switch is logged and its status emitted.                            *)
(*                                                                         *)
(* Time.  Blocked threads hold a timer in seconds; Tick lets one second    *)
(* pass and is refused while a timer that has run out is still waiting to  *)
(* be served.                                                              *)
(***************************************************************************)
EXTENDS Integers, Sequences, FiniteSets, TLC

\* ------------------------------------------------------------ bounds
MaxCallers == 2
MaxLoops == 2
MaxClients == 2
MaxStreams == 1
MaxElapsed == 1
LogWindow == 1
WatchIntervalSeconds == 2

\* ------------------------------------------------- program constants
JoinTimeout == 5
NetTimeout == 10
Cooldown == 5

Callers == 1..MaxCallers
Loops == 1..MaxLoops
Clients == 1..MaxClients
StreamIds == 1..MaxStreams
GameIds == {"gameA", "gameB"}

None == "None"

VARIABLES
    \* Miner fields
    is_running, stop_event, thread, current_game, current_stream, watch_elapsed,
    ws_clients,
    \* the session of twitch.auth
    logged_in_event, access_token,
    \* the auth record of the store (auth.json)
    auth_file,
    \* the store
    settings_games, games, logs, status,
    \* threads
    pc, lgame, lstream, lticks, timer,
    cpc, jthread, jtimer, jsleep,
    \* what the last step emitted, in order, and what it sent to each subscriber
    out, inbox,
    \* a watch request has failed and no status was emitted since
    failed_watch,
    \* poll_device_auth
    p_pc, p_interval, p_attempt, p_result, p_sent, p_last, p_prev, p_waited, p_gap, p_got,
    p_slow, p_all_pending,
    \* a logout ran while this poll was under way
    p_orphan,
    \* each sid's handle_connect: its position and the status it has read
    conn,
    \* the broadcast loop under way: its message, the subscriber set at its
    \* start and the subscribers it has been through
    pub,
    \* Storage.add_log seen read by read and write by write: each writer's
    \* position, the list it has loaded, the entry it adds; and the entries
    \* whose add_log has returned, in the order of their return
    wpc, held, wentry, appended,
    \* the persisted-query table, and the last call of a Twitch wrapper
    gql_operations, gql

minerVars == <<is_running, stop_event, thread, current_game, current_stream, watch_elapsed>>
authVars == <<logged_in_event, access_token, auth_file>>
storeVars == <<settings_games, games, logs, status>>
loopVars == <<pc, lgame, lstream, lticks, timer>>
callerVars == <<cpc, jthread, jtimer, jsleep>>
pollRun == <<p_pc, p_interval, p_attempt, p_result, p_sent, p_last, p_prev, p_waited, p_gap, p_got,
             p_slow, p_all_pending>>
pollVars == <<pollRun, p_orphan>>
writerVars == <<wpc, held, wentry, appended>>
gqlVars == <<gql_operations, gql>>
sideVars == <<writerVars, gqlVars, conn, pub>>
vars == <<minerVars, ws_clients, authVars, storeVars, loopVars, callerVars, out, inbox,
          failed_watch, pollVars, sideVars>>


\* ------------------------------------------------------------ values
\* Optional[Game] holds a game id or None; Optional[Stream] a Stream or None;
\* watch_start_time is kept as the seconds elapsed since it was set.
NoStream == [id |-> 0, game_id |-> None]
Stream(s, g) == [id |-> s, game_id |-> g]
Streams == {Stream(s, g) : s \in StreamIds, g \in GameIds}
NoTime == -1
NoThread == 0

LogEntry(level, message) == [level |-> level, message |-> message]

MinerStatus(run, game, stream, duration, queue) ==
    [is_running |-> run, current_game |-> game, current_stream |-> stream,
     watch_duration |-> duration, total_watched |-> 0, games_queue |-> queue]
DefaultStatus == MinerStatus(FALSE, None, NoStream, 0, {})

StatusMessage(st) ==
    [type |-> "status",
     data |-> [isRunning |-> st.is_running, currentGame |-> st.current_game,
               currentStream |-> st.current_stream,
               watchDuration |-> st.watch_duration,
               totalWatched |-> st.total_watched]]
LogMessage(entry) == [type |-> "log", data |-> entry]

NoInbox == [c \in Clients |-> <<>>]
Orders(S) == {o \in [1..Cardinality(S) -> S] : \A i, j \in 1..Cardinality(S) : o[i] = o[j] => i = j}

\* ------------------------------------------------- store and broadcast
\* The part of the state a call of _log or _update_status writes: the log and
\* status files, the subscriber set, and this step's emissions.
World == [logs |-> logs, status |-> status, ws |-> ws_clients, out |-> <<>>, inbox |-> NoInbox]

\* A cut that keeps the oldest entries.
retained_oldest(a, cap) == IF Len(a) > cap THEN SubSeq(a, 1, cap) ELSE a

\* The cut of Storage.add_log: logs_data[-cap:] when there are more than cap.
retained(a, cap) == IF Len(a) > cap THEN SubSeq(a, Len(a) - cap + 1, Len(a)) ELSE a

\* Storage.add_log: append and keep the newest entries (LogWindow stands for
\* the 1000 of the source).
add_log(ls, entry) == retained(Append(ls, entry), LogWindow)

\* Miner._broadcast_log_update; F is the set of subscribers whose emit raises
\* during this step.
broadcast_log_update(w, entry, F) ==
    IF w.ws = {} THEN w
    ELSE [w EXCEPT !.inbox = [c \in Clients |->
                                 IF c \in w.ws \ F THEN Append(w.inbox[c], LogMessage(entry))
                                 ELSE w.inbox[c]],
                   !.ws = w.ws \ F]

\* Miner._log
log(w, level, message, F) ==
    LET entry == LogEntry(level, message)
        w1 == [w EXCEPT !.logs = add_log(w.logs, entry),
                        !.out = Append(w.out, LogMessage(entry))]
    IN  broadcast_log_update(w1, entry, F)

\* A status broadcast that ends at the first subscriber whose emit raises.
RECURSIVE send_status_until_failure(_, _, _, _, _)
send_status_until_failure(w, msg, order, i, F) ==
    IF i > Len(order) THEN w
    ELSE LET c == order[i]
         IN  IF c \notin F
             THEN send_status_until_failure([w EXCEPT !.inbox[c] = Append(@, msg)],
                                            msg, order, i + 1, F)
             ELSE [log(w, "WARNING", "send_failed", F) EXCEPT !.ws = @ \ {c}]

\* A status broadcast that discards a failing subscriber without a word.
RECURSIVE send_status_silently(_, _, _, _, _)
send_status_silently(w, msg, order, i, F) ==
    IF i > Len(order) THEN w
    ELSE LET c == order[i]
         IN  IF c \notin F
             THEN send_status_silently([w EXCEPT !.inbox[c] = Append(@, msg)],
                                       msg, order, i + 1, F)
             ELSE send_status_silently([w EXCEPT !.ws = @ \ {c}], msg, order, i + 1, F)

\* The loop of Miner._broadcast_status_update over the copied subscriber set,
\* in the order the copy is iterated.
RECURSIVE send_status(_, _, _, _, _)
send_status(w, msg, order, i, F) ==
    IF i > Len(order) THEN w
    ELSE LET c == order[i]
         IN  IF c \notin F
             THEN send_status([w EXCEPT !.inbox[c] = Append(@, msg)], msg, order, i + 1, F)
             ELSE LET w1 == log(w, "WARNING", "send_failed", F)
                  IN  send_status([w1 EXCEPT !.ws = @ \ {c}], msg, order, i + 1, F)

\* Miner._broadcast_status_update
broadcast_status_update(w, st, order, F) ==
    IF w.ws = {} THEN w
    ELSE send_status(w, StatusMessage(st), SelectSeq(order, LAMBDA c : c \in w.ws), 1, F)

\* Miner._update_status, given the Miner fields it reads
update_status(w, run, game, stream, elapsed, order, F) ==
    LET duration == IF elapsed # NoTime /\ run THEN elapsed ELSE 0
        st == MinerStatus(run, game, stream, duration, games)
        w1 == [w EXCEPT !.status = st, !.out = Append(w.out, StatusMessage(st))]
    IN  broadcast_status_update(w1, st, order, F)

Commit(w) ==
    /\ logs' = w.logs
    /\ status' = w.status
    /\ ws_clients' = w.ws
    /\ out' = w.out
    /\ inbox' = w.inbox

Quiet == out' = <<>> /\ inbox' = NoInbox


\* ------------------------------------------------------------ session
\* AuthManager.is_logged_in
is_logged_in == logged_in_event /\ access_token # None

\* ------------------------------------------------------- Miner helpers
\* A selection that prefers the end of the watch-list.
RECURSIVE last_known(_, _)
last_known(ids, catalog) ==
    IF ids = <<>> THEN None
    ELSE IF ids[Len(ids)] \in catalog THEN ids[Len(ids)]
    ELSE last_known(SubSeq(ids, 1, Len(ids) - 1), catalog)

\* The selection of Miner._process_next_game: the first id of the watch-list
\* that is a key of the catalog, or None.
RECURSIVE first_known(_, _)
first_known(ids, catalog) ==
    IF ids = <<>> THEN None
    ELSE IF Head(ids) \in catalog THEN Head(ids)
    ELSE first_known(Tail(ids), catalog)

\* Miner._is_stream_live: no stream is kept longer than the ceiling.
StaleSeconds == 1800

\* A test that still takes a session of exactly the ceiling's age as live.
is_stream_live_at_ceiling(elapsed) == IF elapsed # NoTime THEN elapsed <= StaleSeconds ELSE TRUE

is_stream_live(elapsed) == IF elapsed # NoTime THEN elapsed < StaleSeconds ELSE TRUE

alive(l) == l # NoThread /\ pc[l] # "dead"

\* The head of the interval sleep of _mining_loop, reached at the end of an
\* iteration: the loop's first test of the stop signal.
EnterSleep(l) ==
    IF WatchIntervalSeconds = 0 \/ stop_event
    THEN /\ pc' = [pc EXCEPT ![l] = "iter"]
         /\ lticks' = [lticks EXCEPT ![l] = 0]
         /\ timer' = [timer EXCEPT ![l] = 0]
    ELSE /\ pc' = [pc EXCEPT ![l] = "sleep"]
         /\ lticks' = [lticks EXCEPT ![l] = WatchIntervalSeconds]
         /\ timer' = [timer EXCEPT ![l] = 1]

\* A network call of the loop starts: the session's timeout bounds it.
EnterCall(l, where) ==
    /\ pc' = [pc EXCEPT ![l] = where]
    /\ lticks' = [lticks EXCEPT ![l] = 0]
    /\ timer' = [timer EXCEPT ![l] = NetTimeout]

FailSets == SUBSET ws_clients

\* -------------------------------------------------------- Miner.start
\* A start() that does not test is_running.
StartUnchecked(c) ==
    /\ cpc[c] = "idle"
    /\ cpc' = [cpc EXCEPT ![c] = "start"]
    /\ Quiet
    /\ UNCHANGED <<minerVars, ws_clients, authVars, storeVars, loopVars, jthread, jtimer, jsleep>>
    /\ UNCHANGED <<failed_watch, pollVars, sideVars>>

\* start(), the test of is_running: a no-op when the Miner runs.
StartCheck(c) ==
    /\ cpc[c] = "idle"
    /\ IF is_running
       THEN UNCHANGED cpc
       ELSE cpc' = [cpc EXCEPT ![c] = "start"]
    /\ Quiet
    /\ UNCHANGED <<minerVars, ws_clients, authVars, storeVars, loopVars, jthread, jtimer, jsleep>>
    /\ UNCHANGED <<failed_watch, pollVars, sideVars>>

FreeLoops == {l \in Loops : pc[l] = "dead" /\ \A c \in Callers : ~(cpc[c] = "join" /\ jthread[c] = l)}

\* start(), the rest: set the flags, spawn the loop thread, log, emit status.
StartRun(c) ==
    /\ cpc[c] = "start"
    /\ FreeLoops # {}
    /\ LET l == CHOOSE x \in FreeLoops : \A y \in FreeLoops : x <= y
       IN  /\ is_running' = TRUE
           /\ stop_event' = FALSE
           /\ thread' = l
           /\ pc' = [pc EXCEPT ![l] = "iter"]
           /\ lgame' = [lgame EXCEPT ![l] = None]
           /\ lstream' = [lstream EXCEPT ![l] = NoStream]
           /\ lticks' = [lticks EXCEPT ![l] = 0]
           /\ timer' = [timer EXCEPT ![l] = 0]
    /\ \E F \in FailSets, G \in FailSets, order \in Orders(ws_clients) :
          Commit(update_status(log(World, "INFO", "started", F),
                               TRUE, current_game, current_stream, watch_elapsed, order, G))
    /\ failed_watch' = FALSE
    /\ cpc' = [cpc EXCEPT ![c] = "idle"]
    /\ UNCHANGED <<current_game, current_stream, watch_elapsed, authVars, settings_games, games,
                   jthread, jtimer, jsleep>>
    /\ UNCHANGED <<pollVars, sideVars>>

\* --------------------------------------------------------- Miner.stop
\* stop(), the test of is_running: a no-op when the Miner does not run.
StopCheck(c) ==
    /\ cpc[c] = "idle"
    /\ IF ~is_running
       THEN UNCHANGED cpc
       ELSE cpc' = [cpc EXCEPT ![c] = "stop"]
    /\ Quiet
    /\ UNCHANGED <<minerVars, ws_clients, authVars, storeVars, loopVars, jthread, jtimer, jsleep>>
    /\ UNCHANGED <<failed_watch, pollVars, sideVars>>

\* The end of stop(): clear the current target, log, emit status.
StopFinish(c, run) ==
    /\ current_game' = None
    /\ current_stream' = NoStream
    /\ watch_elapsed' = NoTime
    /\ \E F \in FailSets, G \in FailSets, order \in Orders(ws_clients) :
          Commit(update_status(log(World, "INFO", "stopped", F),
                               run, None, NoStream, NoTime, order, G))
    /\ cpc' = [cpc EXCEPT ![c] = "idle"]
    /\ jthread' = [jthread EXCEPT ![c] = NoThread]
    /\ jtimer' = [jtimer EXCEPT ![c] = 0]
    /\ jsleep' = [jsleep EXCEPT ![c] = FALSE]
    /\ failed_watch' = FALSE

\* stop(): signal the loop, and join it for JoinTimeout seconds when it is alive.
StopSignal(c) ==
    /\ cpc[c] = "stop"
    /\ is_running' = FALSE
    /\ stop_event' = TRUE
    /\ IF alive(thread)
       THEN /\ cpc' = [cpc EXCEPT ![c] = "join"]
            /\ jthread' = [jthread EXCEPT ![c] = thread]
            /\ jtimer' = [jtimer EXCEPT ![c] = JoinTimeout]
            /\ jsleep' = [jsleep EXCEPT ![c] = pc[thread] = "sleep"]
            /\ Quiet
            /\ UNCHANGED <<current_game, current_stream, watch_elapsed, ws_clients, logs, status,
                           failed_watch>>
       ELSE /\ StopFinish(c, FALSE)
    /\ UNCHANGED <<thread, authVars, settings_games, games, loopVars>>
    /\ UNCHANGED <<pollVars, sideVars>>

\* Thread.join returns: the loop thread ended, or the timeout ran out.
StopJoined(c) ==
    /\ cpc[c] = "join"
    /\ ~alive(jthread[c]) \/ jtimer[c] = 0
    /\ StopFinish(c, is_running)
    /\ UNCHANGED <<is_running, stop_event, thread, authVars, settings_games, games, loopVars>>
    /\ UNCHANGED <<pollVars, sideVars>>


\* Thread.join returns, seen assignment by assignment: stop() clears the
\* current game and the current stream, and other threads run before it
\* goes on.
StopJoinedClear(c) ==
    /\ cpc[c] = "join"
    /\ ~alive(jthread[c]) \/ jtimer[c] = 0
    /\ current_game' = None
    /\ current_stream' = NoStream
    /\ cpc' = [cpc EXCEPT ![c] = "clear"]
    /\ Quiet
    /\ UNCHANGED <<is_running, stop_event, thread, watch_elapsed, ws_clients, authVars, storeVars,
                   loopVars, jthread, jtimer, jsleep>>
    /\ UNCHANGED <<failed_watch, pollVars, sideVars>>

\* The rest of stop(): clear the watch start time, log, emit the status of
\* the fields as they are by now.
StopEmit(c) ==
    /\ cpc[c] = "clear"
    /\ watch_elapsed' = NoTime
    /\ \E F \in FailSets, G \in FailSets, order \in Orders(ws_clients) :
          Commit(update_status(log(World, "INFO", "stopped", F),
                               is_running, current_game, current_stream, NoTime, order, G))
    /\ cpc' = [cpc EXCEPT ![c] = "idle"]
    /\ jthread' = [jthread EXCEPT ![c] = NoThread]
    /\ jtimer' = [jtimer EXCEPT ![c] = 0]
    /\ jsleep' = [jsleep EXCEPT ![c] = FALSE]
    /\ failed_watch' = FALSE
    /\ UNCHANGED <<is_running, stop_event, thread, current_game, current_stream, authVars,
                   settings_games, games, loopVars>>
    /\ UNCHANGED <<pollVars, sideVars>>

\* ---------------------------------------------------- the mining loop
\* The head of the while loop of _mining_loop finds the Miner stopped: the
\* thread ends.
LoopExit(l) ==
    /\ pc[l] = "iter"
    /\ ~(is_running /\ ~stop_event)
    /\ pc' = [pc EXCEPT ![l] = "dead"]
    /\ Quiet
    /\ UNCHANGED <<minerVars, ws_clients, authVars, storeVars, lgame, lstream, lticks, timer,
                   callerVars>>
    /\ UNCHANGED <<failed_watch, pollVars, sideVars>>

\* An idle iteration that drops the current target.
LoopIdleClearing(l) ==
    /\ pc[l] = "iter"
    /\ is_running /\ ~stop_event
    /\ \E F \in FailSets :
          \/ /\ ~is_logged_in
             /\ Commit(log(World, "WARNING", "not_logged_in", F))
          \/ /\ is_logged_in
             /\ settings_games = <<>>
             /\ Commit(log(World, "DEBUG", "no_games", F))
          \/ /\ is_logged_in
             /\ settings_games # <<>>
             /\ first_known(settings_games, games) = None
             /\ Commit(log(World, "WARNING", "no_valid_games", F))
    /\ EnterSleep(l)
    /\ current_game' = None /\ current_stream' = NoStream /\ watch_elapsed' = NoTime
    /\ UNCHANGED <<is_running, stop_event, thread>>
    /\ UNCHANGED <<authVars, settings_games, games, lgame, lstream, callerVars>>
    /\ UNCHANGED <<failed_watch, pollVars, sideVars>>

\* An iteration that does no game or stream work: _process_next_game returns
\* after one log entry.
LoopIdle(l) ==
    /\ pc[l] = "iter"
    /\ is_running /\ ~stop_event
    /\ \E F \in FailSets :
          \/ /\ ~is_logged_in
             /\ Commit(log(World, "WARNING", "not_logged_in", F))
          \/ /\ is_logged_in
             /\ settings_games = <<>>
             /\ Commit(log(World, "DEBUG", "no_games", F))
          \/ /\ is_logged_in
             /\ settings_games # <<>>
             /\ first_known(settings_games, games) = None
             /\ Commit(log(World, "WARNING", "no_valid_games", F))
    /\ EnterSleep(l)
    /\ UNCHANGED <<minerVars, authVars, settings_games, games, lgame, lstream, callerVars>>
    /\ UNCHANGED <<failed_watch, pollVars, sideVars>>

\* The end of _process_next_game: find a stream when there is no current
\* stream or it is stale, else watch the current one again.
Proceed(l, game, stream, elapsed) ==
    /\ lgame' = [lgame EXCEPT ![l] = game]
    /\ IF stream = NoStream \/ ~is_stream_live(elapsed)
       THEN /\ EnterCall(l, "discover")
            /\ lstream' = [lstream EXCEPT ![l] = NoStream]
       ELSE /\ EnterCall(l, "watch")
            /\ lstream' = [lstream EXCEPT ![l] = stream]

\* An iteration that selects and switches without the test of is_logged_in.
LoopWorkUnchecked(l) ==
    /\ pc[l] = "iter"
    /\ is_running /\ ~stop_event
    /\ first_known(settings_games, games) # None
    /\ LET next_game == first_known(settings_games, games)
       IN  IF current_game = None \/ current_game # next_game
           THEN /\ current_game' = next_game
                /\ current_stream' = NoStream
                /\ watch_elapsed' = NoTime
                /\ pc' = [pc EXCEPT ![l] = "switch"]
                /\ lgame' = [lgame EXCEPT ![l] = next_game]
                /\ UNCHANGED <<lstream, lticks, timer>>
           ELSE /\ Proceed(l, next_game, current_stream, watch_elapsed)
                /\ UNCHANGED <<current_game, current_stream, watch_elapsed>>
    /\ Quiet
    /\ UNCHANGED <<is_running, stop_event, thread, ws_clients, authVars, storeVars, callerVars>>
    /\ UNCHANGED <<failed_watch, pollVars, sideVars>>

\* An iteration with a game to watch.  When it is not the current game,
\* _switch_to_game sets the game and clears stream and session; else the
\* iteration goes on with the current stream.
LoopWork(l) ==
    /\ pc[l] = "iter"
    /\ is_running /\ ~stop_event
    /\ is_logged_in
    /\ first_known(settings_games, games) # None
    /\ LET next_game == first_known(settings_games, games)
       IN  IF current_game = None \/ current_game # next_game
           THEN /\ current_game' = next_game
                /\ current_stream' = NoStream
                /\ watch_elapsed' = NoTime
                /\ pc' = [pc EXCEPT ![l] = "switch"]
                /\ lgame' = [lgame EXCEPT ![l] = next_game]
                /\ UNCHANGED <<lstream, lticks, timer>>
           ELSE /\ Proceed(l, next_game, current_stream, watch_elapsed)
                /\ UNCHANGED <<current_game, current_stream, watch_elapsed>>
    /\ Quiet
    /\ UNCHANGED <<is_running, stop_event, thread, ws_clients, authVars, storeVars, callerVars>>
    /\ UNCHANGED <<failed_watch, pollVars, sideVars>>

\* _switch_to_game, the rest: log the switch to the store, emit the status;
\* then the iteration goes on with the stream that is current by now.
SwitchEmit(l) ==
    /\ pc[l] = "switch"
    /\ \E F \in FailSets, G \in FailSets, order \in Orders(ws_clients) :
          Commit(update_status(log(World, "INFO", "switching", F),
                               is_running, current_game, current_stream, watch_elapsed,
                               order, G))
    /\ Proceed(l, lgame[l], current_stream, watch_elapsed)
    /\ failed_watch' = FALSE
    /\ UNCHANGED <<minerVars, authVars, settings_games, games, callerVars>>
    /\ UNCHANGED <<pollVars, sideVars>>

\* An iteration in which a read of the store raises: _mining_loop logs the
\* error and sleeps Cooldown seconds.
LoopError(l) ==
    /\ pc[l] = "iter"
    /\ is_running /\ ~stop_event
    /\ is_logged_in
    /\ \E F \in FailSets : Commit(log(World, "ERROR", "iteration_error", F))
    /\ pc' = [pc EXCEPT ![l] = "cooldown"]
    /\ timer' = [timer EXCEPT ![l] = Cooldown]
    /\ UNCHANGED <<minerVars, authVars, settings_games, games, lgame, lstream, lticks, callerVars>>
    /\ UNCHANGED <<failed_watch, pollVars, sideVars>>

\* An iteration in which the log of the store cannot be read: add_log raises
\* in _log before anything is stored or sent, in the iteration and again in
\* the handlers of _mining_loop and _run_mining_loop, and the exception
\* ends the thread.
LoopDies(l) ==
    /\ pc[l] = "iter"
    /\ is_running /\ ~stop_event
    /\ pc' = [pc EXCEPT ![l] = "dead"]
    /\ Quiet
    /\ UNCHANGED <<minerVars, ws_clients, authVars, storeVars, lgame, lstream, lticks, timer,
                   callerVars>>
    /\ UNCHANGED <<failed_watch, pollVars, sideVars>>

CooldownDone(l) ==
    /\ pc[l] = "cooldown"
    /\ timer[l] = 0
    /\ pc' = [pc EXCEPT ![l] = "iter"]
    /\ Quiet
    /\ UNCHANGED <<minerVars, ws_clients, authVars, storeVars, lgame, lstream, lticks, timer,
                   callerVars>>
    /\ UNCHANGED <<failed_watch, pollVars, sideVars>>

\* One second of the interval sleep is over: the next round of the for loop
\* tests the stop signal.
SleepTick(l) ==
    /\ pc[l] = "sleep"
    /\ timer[l] = 0
    /\ IF lticks[l] = 1 \/ stop_event
       THEN /\ pc' = [pc EXCEPT ![l] = "iter"]
            /\ lticks' = [lticks EXCEPT ![l] = 0]
            /\ UNCHANGED timer
       ELSE /\ lticks' = [lticks EXCEPT ![l] = @ - 1]
            /\ timer' = [timer EXCEPT ![l] = 1]
            /\ UNCHANGED pc
    /\ Quiet
    /\ UNCHANGED <<minerVars, ws_clients, authVars, storeVars, lgame, lstream, callerVars>>
    /\ UNCHANGED <<failed_watch, pollVars, sideVars>>

\* _watch_stream fails: log, clear the current stream; no status is emitted.
WatchFailed(w, F) == log(w, "ERROR", "watch_failed", F)

\* get_streams_for_game returns or raises, in _find_and_watch_stream.
DiscoverDone(l) ==
    /\ pc[l] = "discover"
    /\ \E F \in FailSets :
          \/ \* the call raises (an error status, a timeout, a logged-out session)
             /\ Commit(log(World, "ERROR", "find_failed", F))
             /\ EnterSleep(l)
             /\ UNCHANGED <<current_stream, watch_elapsed, lstream, failed_watch>>
          \/ \* no stream is live
             /\ timer[l] > 0
             /\ Commit(log(World, "WARNING", "no_streams", F))
             /\ EnterSleep(l)
             /\ UNCHANGED <<current_stream, watch_elapsed, lstream, failed_watch>>
          \/ \* a stream is chosen among the first five and adopted
             /\ timer[l] > 0
             /\ \E s \in StreamIds :
                   LET selected == Stream(s, lgame[l])
                       w1 == log(World, "INFO", "started_watching", F)
                   IN  IF is_logged_in
                       THEN /\ current_stream' = selected
                            /\ watch_elapsed' = 0
                            /\ Commit(w1)
                            /\ EnterCall(l, "watch")
                            /\ lstream' = [lstream EXCEPT ![l] = selected]
                            /\ UNCHANGED failed_watch
                       ELSE \* gql_request refuses the watch call at once
                            /\ current_stream' = NoStream
                            /\ watch_elapsed' = NoTime
                            /\ \E G \in FailSets : Commit(WatchFailed(w1, G))
                            /\ EnterSleep(l)
                            /\ lstream' = [lstream EXCEPT ![l] = NoStream]
                            /\ failed_watch' = TRUE
    /\ UNCHANGED <<is_running, stop_event, thread, current_game, authVars, settings_games, games,
                   lgame, callerVars>>
    /\ UNCHANGED <<pollVars, sideVars>>

\* get_streams_for_game returns streams, seen assignment by assignment:
\* _find_and_watch_stream assigns the stream it chose to current_stream, and
\* other threads run before it goes on.
DiscoverAdopt(l) ==
    /\ pc[l] = "discover"
    /\ timer[l] > 0
    /\ \E s \in StreamIds :
          /\ current_stream' = Stream(s, lgame[l])
          /\ lstream' = [lstream EXCEPT ![l] = Stream(s, lgame[l])]
    /\ pc' = [pc EXCEPT ![l] = "adopt"]
    /\ Quiet
    /\ UNCHANGED <<is_running, stop_event, thread, current_game, watch_elapsed, ws_clients,
                   authVars, storeVars, lgame, lticks, timer, callerVars>>
    /\ UNCHANGED <<failed_watch, pollVars, sideVars>>

\* The rest of the adoption: set the watch start time, log, and start the
\* watch request, which a logged-out session refuses at once.
AdoptEmit(l) ==
    /\ pc[l] = "adopt"
    /\ \E F \in FailSets :
          LET w1 == log(World, "INFO", "started_watching", F)
          IN  IF is_logged_in
              THEN /\ watch_elapsed' = 0
                   /\ Commit(w1)
                   /\ EnterCall(l, "watch")
                   /\ UNCHANGED <<current_stream, lstream, failed_watch>>
              ELSE /\ current_stream' = NoStream
                   /\ watch_elapsed' = NoTime
                   /\ \E G \in FailSets : Commit(WatchFailed(w1, G))
                   /\ EnterSleep(l)
                   /\ lstream' = [lstream EXCEPT ![l] = NoStream]
                   /\ failed_watch' = TRUE
    /\ UNCHANGED <<is_running, stop_event, thread, current_game, authVars, settings_games, games,
                   lgame, callerVars>>
    /\ UNCHANGED <<pollVars, sideVars>>

\* get_stream_access_token returns or raises, in _watch_stream.
WatchDone(l) ==
    /\ pc[l] = "watch"
    /\ \/ /\ timer[l] > 0
          /\ \E F \in FailSets, G \in FailSets, order \in Orders(ws_clients) :
                Commit(update_status(log(World, "SUCCESS", "watching", F),
                                     is_running, current_game, current_stream, watch_elapsed,
                                     order, G))
          /\ UNCHANGED <<current_stream, watch_elapsed>>
          /\ failed_watch' = FALSE
       \/ /\ \E F \in FailSets : Commit(WatchFailed(World, F))
          /\ current_stream' = NoStream
          /\ watch_elapsed' = NoTime
          /\ failed_watch' = TRUE
    /\ EnterSleep(l)
    /\ lstream' = [lstream EXCEPT ![l] = NoStream]
    /\ UNCHANGED <<is_running, stop_event, thread, current_game, authVars, settings_games, games,
                   lgame, callerVars>>
    /\ UNCHANGED <<pollVars, sideVars>>


\* --------------------------------------------------------------- time
Blocked(l) == pc[l] \in {"discover", "watch", "sleep", "cooldown"}
Runnable(l) == pc[l] \in {"iter", "switch", "adopt"}

\* One second passes.  Threads that can run do so before time moves on: a
\* loop at the head of an iteration, a caller past its test of is_running, a
\* join whose thread has ended, a wait whose timer has run out.  The age of
\* the watch session is counted up to MaxElapsed for a session that began
\* within the behaviour, and up to the ceiling of _is_stream_live for one
\* that was old at its start.
Tick ==
    /\ \A l \in Loops : /\ ~Runnable(l)
                        /\ Blocked(l) => timer[l] > 0
    /\ \A c \in Callers : /\ cpc[c] \notin {"stop", "clear"}
                          /\ cpc[c] = "start" => FreeLoops = {}
                          /\ cpc[c] = "join" => jtimer[c] > 0 /\ alive(jthread[c])
    /\ timer' = [l \in Loops |-> IF Blocked(l) THEN timer[l] - 1 ELSE timer[l]]
    /\ jtimer' = [c \in Callers |-> IF cpc[c] = "join" THEN jtimer[c] - 1 ELSE jtimer[c]]
    /\ watch_elapsed' = IF \/ watch_elapsed = NoTime
                           \/ watch_elapsed = MaxElapsed
                           \/ watch_elapsed >= StaleSeconds
                        THEN watch_elapsed ELSE watch_elapsed + 1
    /\ Quiet
    /\ UNCHANGED <<is_running, stop_event, thread, current_game, current_stream, ws_clients,
                   authVars, storeVars, pc, lgame, lstream, lticks, cpc, jthread, jsleep>>
    /\ UNCHANGED <<failed_watch, pollVars, sideVars>>

\* -------------------------------------------------- the Miner's callers
\* DELETE /auth/logout: Storage.clear_auth removes the auth record,
\* AuthManager.clear deletes the token and clears the flag.
Logout ==
    /\ auth_file' = None
    /\ access_token' = None
    /\ logged_in_event' = FALSE
    /\ p_orphan' = (p_pc \in {"loop", "request"})
    /\ Quiet
    /\ UNCHANGED <<minerVars, ws_clients, storeVars, loopVars, callerVars>>
    /\ UNCHANGED <<failed_watch, pollRun, sideVars>>

\* Storage.add_game
AddGame(g) ==
    /\ games' = games \cup {g}
    /\ settings_games' = IF \E i \in 1..Len(settings_games) : settings_games[i] = g
                         THEN settings_games ELSE Append(settings_games, g)
    /\ <<games', settings_games'>> # <<games, settings_games>>
    /\ Quiet
    /\ UNCHANGED <<minerVars, ws_clients, authVars, logs, status, loopVars, callerVars>>
    /\ UNCHANGED <<failed_watch, pollVars, sideVars>>

\* list.remove: the first occurrence goes.
RECURSIVE remove_first(_, _)
remove_first(ids, g) ==
    IF ids = <<>> THEN <<>>
    ELSE IF Head(ids) = g THEN Tail(ids)
    ELSE <<Head(ids)>> \o remove_first(Tail(ids), g)

\* Storage.remove_game
RemoveGame(g) ==
    /\ games' = games \ {g}
    /\ settings_games' = remove_first(settings_games, g)
    /\ <<games', settings_games'>> # <<games, settings_games>>
    /\ Quiet
    /\ UNCHANGED <<minerVars, ws_clients, authVars, logs, status, loopVars, callerVars>>
    /\ UNCHANGED <<failed_watch, pollVars, sideVars>>

WatchLists == UNION {[1..n -> GameIds] : n \in 0..Cardinality(GameIds)}

\* Storage.reorder_games: the list given replaces the watch-list.
ReorderGames(ids) ==
    /\ ids # settings_games
    /\ settings_games' = ids
    /\ Quiet
    /\ UNCHANGED <<minerVars, ws_clients, authVars, games, logs, status, loopVars, callerVars>>
    /\ UNCHANGED <<failed_watch, pollVars, sideVars>>

\* handle_connect: register the subscriber and send it the stored status.
Connect(cl) ==
    /\ cl \notin ws_clients
    /\ ws_clients' = ws_clients \cup {cl}
    /\ out' = <<>>
    /\ inbox' = [NoInbox EXCEPT ![cl] = <<StatusMessage(status)>>]
    /\ UNCHANGED <<minerVars, authVars, storeVars, loopVars, callerVars>>
    /\ UNCHANGED <<failed_watch, pollVars, sideVars>>

\* handle_connect step by step. No handler runs for the sid.
NoConnect == [cl \in Clients |-> [pc |-> "off", read |-> DefaultStatus]]

\* miner_instance.add_ws_client(client)
ConnectAdd(cl) ==
    /\ conn[cl].pc = "off"
    /\ cl \notin ws_clients
    /\ ws_clients' = ws_clients \cup {cl}
    /\ conn' = [conn EXCEPT ![cl].pc = "added"]
    /\ Quiet
    /\ UNCHANGED <<minerVars, authVars, storeVars, loopVars, callerVars>>
    /\ UNCHANGED <<failed_watch, pollVars, writerVars, gqlVars, pub>>

\* status = miner_instance.get_status(): the stored status is read.
ConnectRead(cl) ==
    /\ conn[cl].pc = "added"
    /\ conn' = [conn EXCEPT ![cl] = [pc |-> "read", read |-> status]]
    /\ Quiet
    /\ UNCHANGED <<minerVars, ws_clients, authVars, storeVars, loopVars, callerVars>>
    /\ UNCHANGED <<failed_watch, pollVars, writerVars, gqlVars, pub>>

\* emit('message', ...): the status that was read goes to the sid.
ConnectSend(cl) ==
    /\ conn[cl].pc = "read"
    /\ out' = <<>>
    /\ inbox' = [NoInbox EXCEPT ![cl] = <<StatusMessage(conn[cl].read)>>]
    /\ conn' = [conn EXCEPT ![cl] = NoConnect[cl]]
    /\ UNCHANGED <<minerVars, ws_clients, authVars, storeVars, loopVars, callerVars>>
    /\ UNCHANGED <<failed_watch, pollVars, writerVars, gqlVars, pub>>

\* handle_disconnect
Disconnect(cl) ==
    /\ cl \in ws_clients
    /\ ws_clients' = ws_clients \ {cl}
    /\ Quiet
    /\ UNCHANGED <<minerVars, authVars, storeVars, loopVars, callerVars>>
    /\ UNCHANGED <<failed_watch, pollVars, sideVars>>

\* ------------------------------------------- a broadcast step by step
\* No broadcast loop is running.
NoPublish == [pc |-> "idle", msg |-> [type |-> "none"], snapshot |-> {}, visited |-> {}]

\* A loop that goes through the subscriber set as it is now.
targets_live(p) == ws_clients

\* for client in self.ws_clients.copy(): the loop goes through the copy made
\* when it started.
targets(p) == p.snapshot

\* _log up to the head of the loop of _broadcast_log_update: the entry is
\* stored, and with no subscriber there is no loop.
LogStart ==
    /\ pub.pc = "idle"
    /\ logs' = add_log(logs, LogEntry("INFO", "event"))
    /\ out' = <<LogMessage(LogEntry("INFO", "event"))>>
    /\ inbox' = NoInbox
    /\ pub' = IF ws_clients = {} THEN NoPublish
              ELSE [pc |-> "sending", msg |-> LogMessage(LogEntry("INFO", "event")),
                    snapshot |-> ws_clients, visited |-> {}]
    /\ UNCHANGED <<minerVars, ws_clients, authVars, settings_games, games, status, loopVars,
                   callerVars>>
    /\ UNCHANGED <<failed_watch, pollVars, writerVars, gqlVars, conn>>

\* _update_status up to the head of the loop of _broadcast_status_update:
\* the status is stored, and with no subscriber there is no loop.
StatusStart ==
    /\ pub.pc = "idle"
    /\ status' = MinerStatus(is_running, current_game, current_stream,
                             IF watch_elapsed # NoTime /\ is_running THEN watch_elapsed ELSE 0,
                             games)
    /\ out' = <<StatusMessage(status')>>
    /\ inbox' = NoInbox
    /\ pub' = IF ws_clients = {} THEN NoPublish
              ELSE [pc |-> "sending", msg |-> StatusMessage(status'),
                    snapshot |-> ws_clients, visited |-> {}]
    /\ UNCHANGED <<minerVars, ws_clients, authVars, settings_games, games, logs, loopVars,
                   callerVars>>
    /\ UNCHANGED <<failed_watch, pollVars, writerVars, gqlVars, conn>>

\* One round of the loop whose emit returns.
PublishDeliver(c) ==
    /\ pub.pc = "sending"
    /\ c \in targets(pub) \ pub.visited
    /\ pub' = [pub EXCEPT !.visited = @ \cup {c}]
    /\ out' = <<>>
    /\ inbox' = [NoInbox EXCEPT ![c] = <<pub.msg>>]
    /\ UNCHANGED <<minerVars, ws_clients, authVars, storeVars, loopVars, callerVars>>
    /\ UNCHANGED <<failed_watch, pollVars, writerVars, gqlVars, conn>>

\* One round of the loop whose emit raises: the subscriber is discarded,
\* after the warning's own _log when the message is a status.
PublishFail(c) ==
    /\ pub.pc = "sending"
    /\ c \in targets(pub) \ pub.visited
    /\ pub' = [pub EXCEPT !.visited = @ \cup {c}]
    /\ IF pub.msg.type = "status"
       THEN \E F \in FailSets :
               LET w == log(World, "WARNING", "send_failed", F)
               IN  Commit([w EXCEPT !.ws = @ \ {c}])
       ELSE Commit([World EXCEPT !.ws = @ \ {c}])
    /\ UNCHANGED <<minerVars, authVars, settings_games, games, loopVars, callerVars>>
    /\ UNCHANGED <<failed_watch, pollVars, writerVars, gqlVars, conn>>

\* The loop has been through its subscribers.
PublishEnd ==
    /\ pub.pc = "sending"
    /\ targets(pub) \ pub.visited = {}
    /\ pub' = NoPublish
    /\ Quiet
    /\ UNCHANGED <<minerVars, ws_clients, authVars, storeVars, loopVars, callerVars>>
    /\ UNCHANGED <<failed_watch, pollVars, writerVars, gqlVars, conn>>

\* --------------------------------------------------- poll_device_auth
\* The window of the poll, in seconds.
PollWindow == 300
MaxAttempts == 60
Intervals == {i \in 1..PollWindow + 1 : PollWindow \div i <= MaxAttempts}

\* What one POST to the token endpoint comes back with.
Responses == {"token", "no_token", "authorization_pending", "slow_down", "expired_token",
              "access_denied", "unknown_error", "unparsable", "other_status", "exception"}

\* An attempt budget that rounds the quotient up.
max_attempts_rounded_up == (PollWindow + p_interval - 1) \div p_interval

\* max_attempts = 300 // interval
max_attempts == PollWindow \div p_interval

\* No poll runs.
PollOff ==
    /\ p_pc = "off" /\ p_interval = 0 /\ p_attempt = 0 /\ p_result = None /\ p_sent = 0
    /\ p_last = None /\ p_prev = None /\ p_waited = 0 /\ p_gap = 0 /\ p_got = FALSE
    /\ p_slow = 0 /\ p_all_pending = TRUE
    /\ p_orphan = FALSE

\* A poll_for_token that saves whatever the poll returned.
save_auth_unguarded(result, file) == result

\* poll_for_token after poll_device_auth has returned: a token is saved as
\* the auth record, None leaves the record alone.
save_auth(result, file) == IF result # None THEN result ELSE file

\* The head of the for loop: sleep interval seconds before the attempt, or
\* leave the loop and return None when the attempts are used up.
PollSleep ==
    /\ p_pc = "loop"
    /\ IF p_attempt < max_attempts
       THEN /\ p_waited' = p_waited + p_interval
            /\ p_pc' = "request"
            /\ UNCHANGED p_result
       ELSE /\ p_pc' = "done"
            /\ p_result' = None
            /\ UNCHANGED p_waited
    /\ auth_file' = IF p_pc' = "done" THEN save_auth(p_result', auth_file) ELSE auth_file
    /\ UNCHANGED <<p_interval, p_attempt, p_sent, p_last, p_prev, p_gap, p_got, access_token>>
    /\ UNCHANGED <<p_slow, p_all_pending, p_orphan>>

\* poll_device_auth going on after expired_token and access_denied.
PollOutcomeNoBreak(r) ==
    CASE r = "token" -> [pc |-> "done", result |-> "token", waited |-> 0]
      [] r = "slow_down" -> [pc |-> "loop", result |-> None, waited |-> p_interval]
      [] OTHER -> [pc |-> "loop", result |-> None, waited |-> 0]

\* poll_device_auth without the second sleep after slow_down.
PollOutcomeNoBackoff(r) ==
    CASE r = "token" -> [pc |-> "done", result |-> "token", waited |-> 0]
      [] r \in {"expired_token", "access_denied"} -> [pc |-> "done", result |-> None, waited |-> 0]
      [] OTHER -> [pc |-> "loop", result |-> None, waited |-> 0]

\* poll_device_auth giving up at the first answer it does not know.
PollOutcomeNoRetry(r) ==
    CASE r = "token" -> [pc |-> "done", result |-> "token", waited |-> 0]
      [] r = "authorization_pending" -> [pc |-> "loop", result |-> None, waited |-> 0]
      [] r = "slow_down" -> [pc |-> "loop", result |-> None, waited |-> p_interval]
      [] OTHER -> [pc |-> "done", result |-> None, waited |-> 0]

\* Where the loop goes after response r: return the token, break, or go on,
\* after one more sleep for slow_down.
PollOutcome(r) ==
    CASE r = "token" -> [pc |-> "done", result |-> "token", waited |-> 0]
      [] r \in {"expired_token", "access_denied"} -> [pc |-> "done", result |-> None, waited |-> 0]
      [] r = "slow_down" -> [pc |-> "loop", result |-> None, waited |-> p_interval]
      [] OTHER -> [pc |-> "loop", result |-> None, waited |-> 0]

\* One attempt: the POST and the handling of its response.
PollRequest(r) ==
    /\ p_pc = "request"
    /\ p_sent' = p_sent + 1
    /\ p_gap' = p_waited
    /\ p_prev' = p_last
    /\ p_last' = r
    /\ p_got' = (p_got \/ r = "token")
    /\ p_slow' = IF r = "slow_down" THEN p_slow + 1 ELSE p_slow
    /\ p_all_pending' = (p_all_pending /\ r = "authorization_pending")
    /\ p_attempt' = p_attempt + 1
    /\ p_pc' = PollOutcome(r).pc
    /\ p_result' = PollOutcome(r).result
    /\ p_waited' = PollOutcome(r).waited
    /\ access_token' = IF r = "token" THEN "token" ELSE access_token
    /\ auth_file' = IF p_pc' = "done" THEN save_auth(p_result', auth_file) ELSE auth_file
    /\ UNCHANGED <<p_interval, p_orphan>>

\* POST /auth/callback: handle_auth_callback starts poll_for_token in a
\* thread of its own, with the interval of the request.
BeginPoll(i) ==
    /\ p_pc \in {"off", "done"}
    /\ p_pc' = "loop" /\ p_interval' = i /\ p_attempt' = 0 /\ p_result' = None
    /\ p_sent' = 0 /\ p_last' = None /\ p_prev' = None /\ p_waited' = 0 /\ p_gap' = 0
    /\ p_got' = FALSE
    /\ p_slow' = 0 /\ p_all_pending' = TRUE
    /\ p_orphan' = FALSE
    /\ UNCHANGED <<access_token, auth_file>>

\* The seconds poll_device_auth has spent in time.sleep: interval seconds at
\* the head of every attempt begun, and interval more after every slow_down.
poll_slept == p_interval * (p_sent + p_slow + (IF p_pc = "request" THEN 1 ELSE 0))

\* The state of the poll: Pending until poll_device_auth returns, then
\* Authenticated with a token and Failed with None.
PollState ==
    IF p_pc # "done" THEN "Pending"
    ELSE IF p_result # None THEN "Authenticated" ELSE "Failed"

MinerIdle ==
    UNCHANGED <<minerVars, ws_clients, logged_in_event, storeVars, loopVars, callerVars, out, inbox,
                failed_watch, sideVars>>

\* ------------------------------------------------------- status file
\* status.json as json.dump writes it: None becomes null, a Game and a Stream
\* become objects of their fields, the queue a list of such objects.
JsonNull == [null |-> TRUE]
EmptyJson == [empty |-> TRUE]
asdict_game(g) == IF g = None THEN JsonNull ELSE [id |-> g]
asdict_stream(st) == IF st = NoStream THEN JsonNull ELSE [id |-> st.id, game_id |-> st.game_id]

\* Storage.save_miner_status: the file that asdict(status) makes.
save_miner_status(st) ==
    [is_running |-> st.is_running,
     current_game |-> asdict_game(st.current_game),
     current_stream |-> asdict_stream(st.current_stream),
     watch_duration |-> st.watch_duration,
     total_watched |-> st.total_watched,
     games_queue |-> {asdict_game(g) : g \in st.games_queue}]

\* Storage.get_miner_status: the default for an empty file; else the nested
\* objects that are there become a Game, a Stream and Games again.
get_miner_status(data) ==
    IF data = EmptyJson THEN DefaultStatus
    ELSE [is_running |-> data.is_running,
          current_game |-> IF data.current_game # JsonNull THEN data.current_game.id ELSE None,
          current_stream |-> IF data.current_stream # JsonNull
                             THEN Stream(data.current_stream.id, data.current_stream.game_id)
                             ELSE NoStream,
          watch_duration |-> data.watch_duration,
          total_watched |-> data.total_watched,
          games_queue |-> IF data.games_queue # {} THEN {d.id : d \in data.games_queue} ELSE {}]

\* The snapshots _update_status can build.
StatusInputs ==
    {MinerStatus(run, game, stream, duration, queue) :
        run \in BOOLEAN, game \in GameIds \cup {None}, stream \in Streams \cup {NoStream},
        duration \in 0..MaxElapsed, queue \in SUBSET GameIds}

\* A snapshot is saved and pushed as _update_status does, and the file is
\* read back as get_status does.
SaveAndPush(st) ==
    /\ status' = get_miner_status(save_miner_status(st))
    /\ out' = <<StatusMessage(st)>>
    /\ inbox' = NoInbox
    /\ UNCHANGED <<minerVars, ws_clients, authVars, settings_games, games, logs, loopVars,
                   callerVars, failed_watch, pollVars, sideVars>>

\* ------------------------------------------------------------ writers
\* The threads that call Miner._log: a request handler in start() or stop(),
\* and the loop thread.  Here add_log is a read of logs.json followed by a
\* write of it, the log keeps LogCap entries (for the 1000 of the source),
\* and MaxAppends calls are followed.
MaxWriters == 2
LogCap == 3
MaxAppends == 5
Writers == 1..MaxWriters
StoreEntries == {LogEntry("INFO", "started"), LogEntry("INFO", "stopped"),
                 LogEntry("WARNING", "not_logged_in")}

\* add_log, its first line: _load_json returns the list that is in the file.
WriterLoad(w, entry) ==
    /\ wpc[w] = "idle"
    /\ Len(appended) + Cardinality({v \in Writers : wpc[v] = "loaded"}) < MaxAppends
    /\ wpc' = [wpc EXCEPT ![w] = "loaded"]
    /\ held' = [held EXCEPT ![w] = logs]
    /\ wentry' = [wentry EXCEPT ![w] = entry]
    /\ UNCHANGED <<appended, logs>>
    /\ UNCHANGED <<minerVars, ws_clients, authVars, settings_games, games, status, loopVars,
                   callerVars, out, inbox, failed_watch, pollVars, gqlVars, conn, pub>>

\* add_log, the rest: append to the list loaded, cut it, write the file.
WriterSave(w) ==
    /\ wpc[w] = "loaded"
    /\ logs' = retained(Append(held[w], wentry[w]), LogCap)
    /\ appended' = Append(appended, wentry[w])
    /\ wpc' = [wpc EXCEPT ![w] = "idle"]
    /\ held' = [held EXCEPT ![w] = <<>>]
    /\ wentry' = [wentry EXCEPT ![w] = None]
    /\ UNCHANGED <<minerVars, ws_clients, authVars, settings_games, games, status, loopVars,
                   callerVars, out, inbox, failed_watch, pollVars, gqlVars, conn, pub>>

\* ------------------------------------------------------- Twitch calls
\* gql records the last call of a wrapper: the operation it names, how the
\* call ended, how many requests went to the network, and a bit that every
\* call flips.
NoCall == [op |-> None, result |-> None, sent |-> 0, turn |-> 0]

\* The operations the wrappers of Twitch name.
WrapperOperations ==
    {"ViewerDropsDashboard", "Inventory", "DirectoryPage_Game", "PlaybackAccessToken",
     "ChannelPointsContext", "DropsPage_ClaimDropRewards", "ClaimCommunityPoints",
     "DropCurrentSessionContext"}

\* What the POST to the GraphQL endpoint comes back with.
GqlResponses == {"200", "other_status", "exception"}

\* An operation built whatever the table holds.
build_any_operation(name) == [error |-> None, operationName |-> name]

\* Twitch._build_gql_operation: a name that is not in GQL_OPERATIONS raises.
build_gql_operation(name) ==
    IF name \notin gql_operations
    THEN [error |-> "unknown_operation", operationName |-> name]
    ELSE [error |-> None, operationName |-> name]

\* A request that goes out whatever the session holds.
gql_request_unchecked(operation, response) ==
    [result |-> IF response = "200" THEN "ok" ELSE "request_failed", sent |-> 1]

\* Twitch.gql_request: raise when the session is not logged in, else one POST.
gql_request(operation, response) ==
    IF ~is_logged_in THEN [result |-> "not_logged_in", sent |-> 0]
    ELSE [result |-> IF response = "200" THEN "ok" ELSE "request_failed", sent |-> 1]

\* A wrapper (get_drops_dashboard, get_inventory, get_streams_for_game, ...)
\* is called: it builds its operation and hands it to gql_request.
GqlCall(name, response) ==
    /\ LET operation == build_gql_operation(name)
           r == gql_request(operation, response)
       IN  gql' = IF operation.error # None
                  THEN [op |-> name, result |-> operation.error, sent |-> 0,
                        turn |-> 1 - gql.turn]
                  ELSE [op |-> name, result |-> r.result, sent |-> r.sent,
                        turn |-> 1 - gql.turn]
    /\ UNCHANGED gql_operations
    /\ UNCHANGED <<minerVars, ws_clients, authVars, storeVars, loopVars, callerVars, out, inbox,
                   failed_watch, pollVars, writerVars, conn, pub>>

\* No writer is inside add_log and no wrapper was called.
SideOff ==
    /\ wpc = [w \in Writers |-> "idle"]
    /\ held = [w \in Writers |-> <<>>]
    /\ wentry = [w \in Writers |-> None]
    /\ appended = <<>>
    /\ gql_operations = {} /\ gql = NoCall
    /\ conn = NoConnect
    /\ pub = NoPublish

\* ------------------------------------------------------ specifications
\* The Miner as constructed, over a fresh store; the session handed to it is
\* either new or logged in.
InitMiner ==
    /\ is_running = FALSE /\ stop_event = FALSE /\ thread = NoThread
    /\ current_game = None /\ current_stream = NoStream /\ watch_elapsed = NoTime
    /\ ws_clients = {}
    /\ \/ logged_in_event = FALSE /\ access_token = None /\ auth_file = None
       \/ logged_in_event = TRUE /\ access_token = "token" /\ auth_file = "token"
    /\ logs = <<>> /\ status = DefaultStatus
    /\ pc = [l \in Loops |-> "dead"]
    /\ lgame = [l \in Loops |-> None]
    /\ lstream = [l \in Loops |-> NoStream]
    /\ lticks = [l \in Loops |-> 0]
    /\ timer = [l \in Loops |-> 0]
    /\ cpc = [c \in Callers |-> "idle"]
    /\ jthread = [c \in Callers |-> NoThread]
    /\ jtimer = [c \in Callers |-> 0]
    /\ jsleep = [c \in Callers |-> FALSE]
    /\ out = <<>> /\ inbox = NoInbox
    /\ failed_watch = FALSE
    /\ PollOff
    /\ SideOff

CallerStep(c) == StartCheck(c) \/ StartRun(c) \/ StopCheck(c) \/ StopSignal(c) \/ StopJoined(c)
LoopStep(l) ==
    \/ LoopExit(l) \/ LoopIdle(l) \/ LoopWork(l) \/ SwitchEmit(l) \/ LoopError(l)
    \/ CooldownDone(l) \/ SleepTick(l) \/ DiscoverDone(l) \/ WatchDone(l)

\* The Miner started by one caller and left running, while the watch-list,
\* the catalog and the session change around it.
Init ==
    /\ InitMiner
    /\ settings_games = <<>> /\ games = {}
Next ==
    \/ StartCheck(1) \/ StartRun(1)
    \/ \E l \in Loops : \/ LoopIdle(l) \/ LoopWork(l) \/ SwitchEmit(l) \/ LoopError(l)
                         \/ CooldownDone(l) \/ SleepTick(l) \/ DiscoverDone(l) \/ WatchDone(l)
    \/ Tick
    \/ Logout
    \/ \E g \in GameIds : AddGame(g) \/ RemoveGame(g)
    \/ \E ids \in WatchLists : ReorderGames(ids)
Spec == Init /\ [][Next]_vars

\* One caller starting and stopping the Miner, the loop threads and time, over
\* a fixed watch-list.
InitConc ==
    /\ InitMiner
    /\ settings_games = <<"gameA">> /\ games = {"gameA"}
NextConc ==
    \/ CallerStep(1)
    \/ \E l \in Loops : LoopStep(l)
    \/ Tick
    \/ Logout
SpecConc == InitConc /\ [][NextConc]_vars

\* Concurrent callers over a session that is not logged in: every iteration
\* of the loop is idle.
InitIdle ==
    /\ InitMiner
    /\ ~logged_in_event
    /\ settings_games = <<"gameA">> /\ games = {"gameA"}
NextIdle ==
    \/ \E c \in Callers : CallerStep(c)
    \/ \E l \in Loops : LoopExit(l) \/ LoopIdle(l) \/ SleepTick(l)
    \/ Tick
SpecIdle == InitIdle /\ [][NextIdle]_vars

\* Subscribers that come, go and fail while callers start and stop a Miner
\* whose session is not logged in: the events are those of start(), of stop()
\* and of the idle iterations.
InitCast ==
    /\ InitMiner
    /\ ~logged_in_event
    /\ settings_games = <<"gameA">> /\ games = {"gameA"}
NextCast ==
    \/ \E c \in Callers : CallerStep(c)
    \/ \E l \in Loops : LoopExit(l) \/ LoopIdle(l) \/ SleepTick(l)
    \/ Tick
    \/ \E cl \in Clients : Connect(cl) \/ Disconnect(cl)
SpecCast == InitCast /\ [][NextCast]_vars

\* poll_device_auth called with an interval of the range, against a token
\* endpoint that answers each attempt in any of the ways it can.
InitPoll ==
    /\ is_running = FALSE /\ stop_event = FALSE /\ thread = NoThread
    /\ current_game = None /\ current_stream = NoStream /\ watch_elapsed = NoTime
    /\ ws_clients = {}
    /\ logged_in_event = FALSE /\ access_token = None /\ auth_file = None
    /\ settings_games = <<>> /\ games = {}
    /\ logs = <<>> /\ status = DefaultStatus
    /\ pc = [l \in Loops |-> "dead"]
    /\ lgame = [l \in Loops |-> None]
    /\ lstream = [l \in Loops |-> NoStream]
    /\ lticks = [l \in Loops |-> 0]
    /\ timer = [l \in Loops |-> 0]
    /\ cpc = [c \in Callers |-> "idle"]
    /\ jthread = [c \in Callers |-> NoThread]
    /\ jtimer = [c \in Callers |-> 0]
    /\ jsleep = [c \in Callers |-> FALSE]
    /\ out = <<>> /\ inbox = NoInbox
    /\ failed_watch = FALSE
    /\ p_pc = "loop" /\ p_interval \in Intervals /\ p_attempt = 0 /\ p_result = None
    /\ p_sent = 0 /\ p_last = None /\ p_prev = None /\ p_waited = 0 /\ p_gap = 0
    /\ p_got = FALSE
    /\ p_slow = 0 /\ p_all_pending = TRUE
    /\ p_orphan = FALSE
    /\ SideOff
NextPoll ==
    \/ PollSleep /\ MinerIdle
    \/ \E r \in Responses : PollRequest(r) /\ MinerIdle
SpecPoll == InitPoll /\ [][NextPoll]_vars


\* Subscribers that register with a Miner that is started and watches, over
\* a logged-in session and a fixed watch-list.
InitConnect ==
    /\ InitMiner
    /\ logged_in_event
    /\ settings_games = <<"gameA">> /\ games = {"gameA"}
NextConnect ==
    \/ StartCheck(1) \/ StartRun(1)
    \/ \E l \in Loops : \/ LoopWork(l) \/ SwitchEmit(l) \/ SleepTick(l)
                         \/ DiscoverDone(l) \/ WatchDone(l)
    \/ Tick
    \/ \E cl \in Clients : Connect(cl) \/ Disconnect(cl)
SpecConnect == InitConnect /\ [][NextConnect]_vars

\* The same Miner with handle_connect taken step by step: the loop's status
\* updates run between a handler's registration, its read and its send.
NextJoin ==
    \/ StartCheck(1) \/ StartRun(1)
    \/ \E l \in Loops : \/ LoopWork(l) \/ SwitchEmit(l) \/ SleepTick(l)
                         \/ DiscoverDone(l) \/ WatchDone(l)
    \/ Tick
    \/ \E cl \in Clients : ConnectAdd(cl) \/ ConnectRead(cl) \/ ConnectSend(cl)
    \/ \E cl \in Clients : conn[cl].pc = "off" /\ Disconnect(cl)
SpecJoin == InitConnect /\ [][NextJoin]_vars

\* One thread's broadcasts taken round by round while subscribers connect
\* and disconnect on other threads.
NextPublish ==
    \/ LogStart \/ StatusStart
    \/ \E c \in Clients : PublishDeliver(c) \/ PublishFail(c)
    \/ PublishEnd
    \/ \E cl \in Clients : Connect(cl) \/ Disconnect(cl)
SpecPublish == InitConnect /\ [][NextPublish]_vars

\* A Miner that has watched one stream for almost half an hour and has just
\* entered the interval sleep after a watch request: the session is
\* logged in, the status is the one that request left.
StaleMargin == 6
OldStream == Stream(1, "gameA")
InitStale ==
    /\ is_running = TRUE /\ stop_event = FALSE /\ thread = 1
    /\ current_game = "gameA" /\ current_stream = OldStream
    /\ watch_elapsed \in (StaleSeconds - StaleMargin)..(StaleSeconds - 1)
    /\ ws_clients = {}
    /\ logged_in_event = TRUE /\ access_token = "token" /\ auth_file = "token"
    /\ settings_games = <<"gameA">> /\ games = {"gameA"}
    /\ logs = add_log(<<>>, LogEntry("SUCCESS", "watching"))
    /\ status = MinerStatus(TRUE, "gameA", OldStream, watch_elapsed, games)
    /\ pc = [l \in Loops |-> IF l = 1 THEN "sleep" ELSE "dead"]
    /\ lgame = [l \in Loops |-> IF l = 1 THEN "gameA" ELSE None]
    /\ lstream = [l \in Loops |-> NoStream]
    /\ lticks = [l \in Loops |-> IF l = 1 THEN WatchIntervalSeconds ELSE 0]
    /\ timer = [l \in Loops |-> IF l = 1 THEN 1 ELSE 0]
    /\ cpc = [c \in Callers |-> "idle"]
    /\ jthread = [c \in Callers |-> NoThread]
    /\ jtimer = [c \in Callers |-> 0]
    /\ jsleep = [c \in Callers |-> FALSE]
    /\ out = <<>> /\ inbox = NoInbox
    /\ failed_watch = FALSE
    /\ PollOff
    /\ SideOff
NextStale ==
    \/ \E l \in Loops : LoopWork(l) \/ SleepTick(l) \/ DiscoverDone(l) \/ WatchDone(l)
    \/ Tick
SpecStale == InitStale /\ [][NextStale]_vars

\* One thread that adds entries to the log of a fresh store, call after call.
InitAppend ==
    /\ InitMiner
    /\ ~logged_in_event
    /\ settings_games = <<>> /\ games = {}
NextAppend ==
    \/ \E e \in StoreEntries : WriterLoad(1, e)
    \/ WriterSave(1)
SpecAppend == InitAppend /\ [][NextAppend]_vars

\* The request thread and the loop thread add entries to the log at the
\* same time.
NextStore ==
    \/ \E w \in Writers, e \in StoreEntries : WriterLoad(w, e)
    \/ \E w \in Writers : WriterSave(w)
SpecStore == InitAppend /\ [][NextStore]_vars

\* Snapshots saved to the status file of a fresh store, pushed, and read back.
NextStatus == \E st \in StatusInputs : SaveAndPush(st)
SpecStatus == InitAppend /\ [][NextStatus]_vars

\* The wrappers of Twitch called over a session that is new or logged in and
\* may be logged out, with a persisted-query table that holds any of the
\* operations they name.
InitGql ==
    /\ is_running = FALSE /\ stop_event = FALSE /\ thread = NoThread
    /\ current_game = None /\ current_stream = NoStream /\ watch_elapsed = NoTime
    /\ ws_clients = {}
    /\ \/ logged_in_event = FALSE /\ access_token = None /\ auth_file = None
       \/ logged_in_event = TRUE /\ access_token = "token" /\ auth_file = "token"
    /\ settings_games = <<>> /\ games = {}
    /\ logs = <<>> /\ status = DefaultStatus
    /\ pc = [l \in Loops |-> "dead"]
    /\ lgame = [l \in Loops |-> None]
    /\ lstream = [l \in Loops |-> NoStream]
    /\ lticks = [l \in Loops |-> 0]
    /\ timer = [l \in Loops |-> 0]
    /\ cpc = [c \in Callers |-> "idle"]
    /\ jthread = [c \in Callers |-> NoThread]
    /\ jtimer = [c \in Callers |-> 0]
    /\ jsleep = [c \in Callers |-> FALSE]
    /\ out = <<>> /\ inbox = NoInbox
    /\ failed_watch = FALSE
    /\ PollOff
    /\ wpc = [w \in Writers |-> "idle"]
    /\ held = [w \in Writers |-> <<>>]
    /\ wentry = [w \in Writers |-> None]
    /\ appended = <<>>
    /\ gql_operations \in SUBSET WrapperOperations /\ gql = NoCall
    /\ conn = NoConnect
    /\ pub = NoPublish
NextGql ==
    \/ \E name \in WrapperOperations, response \in GqlResponses : GqlCall(name, response)
    \/ Logout
SpecGql == InitGql /\ [][NextGql]_vars

\* A started Miner whose iterations fail in every way they can: requests
\* that raise or time out, reads of the store that raise, a log that cannot
\* be read; over a fixed watch-list.
InitFault ==
    /\ InitMiner
    /\ settings_games = <<"gameA">> /\ games = {"gameA"}
NextFault ==
    \/ StartCheck(1) \/ StartRun(1)
    \/ \E l \in Loops : \/ LoopIdle(l) \/ LoopWork(l) \/ SwitchEmit(l) \/ LoopError(l)
                         \/ LoopDies(l) \/ CooldownDone(l) \/ SleepTick(l)
                         \/ DiscoverDone(l) \/ WatchDone(l)
    \/ Tick
    \/ Logout
SpecFault == InitFault /\ [][NextFault]_vars

\* stop() against the loop, with the end of stop() and the adoption of a
\* stream taken one assignment at a time: one caller, a logged-in session, a
\* fixed watch-list, a discovery that finds a stream.
InitRace ==
    /\ InitMiner
    /\ logged_in_event
    /\ settings_games = <<"gameA">> /\ games = {"gameA"}
NextRace ==
    \/ StartCheck(1) \/ StartRun(1) \/ StopCheck(1) \/ StopSignal(1)
    \/ StopJoinedClear(1) \/ StopEmit(1)
    \/ \E l \in Loops : \/ LoopExit(l) \/ LoopWork(l) \/ SwitchEmit(l) \/ SleepTick(l)
                         \/ DiscoverAdopt(l) \/ AdoptEmit(l) \/ WatchDone(l)
    \/ Tick
SpecRace == InitRace /\ [][NextRace]_vars

\* The program as main.py builds it: a new session, device authorizations
\* that are polled for and logouts, and a Miner that one caller starts and
\* stops over a watch-list with a known game.
AuthIntervals == {PollWindow \div 2, PollWindow}
InitAuth ==
    /\ InitMiner
    /\ ~logged_in_event
    /\ settings_games = <<"gameA">> /\ games = {"gameA"}
NextAuth ==
    \/ \E i \in AuthIntervals : BeginPoll(i) /\ MinerIdle
    \/ PollSleep /\ MinerIdle
    \/ \E r \in Responses : PollRequest(r) /\ MinerIdle
    \/ Logout
    \/ CallerStep(1)
    \/ \E l \in Loops : LoopExit(l) \/ LoopIdle(l) \/ SleepTick(l)
    \/ Tick
SpecAuth == InitAuth /\ [][NextAuth]_vars

C4_SlowDownBacksOff ==
    /\ p_last = "slow_down" /\ PollState # "Pending" =>
          PollState = "Failed" /\ p_attempt = max_attempts
    /\ p_sent > 1 /\ p_prev = "authorization_pending" => p_gap = p_interval
    /\ p_sent > 1 /\ p_prev = "slow_down" => p_gap > p_interval

\* A request sent two intervals after a slow_down response.
C4_Witness == p_sent > 1 /\ p_prev = "slow_down" /\ p_gap = 2 * p_interval /\ p_interval = 5

\* The status events among the events of a step, and whether a log entry
\* with the message is among them.
Statuses(o) == SelectSeq(o, LAMBDA m : m.type = "status")
Logged(o, message) == \E i \in 1..Len(o) : o[i].type = "log" /\ o[i].data.message = message
Received(box, m) == \E i \in 1..Len(box) : box[i] = m

\* C2: whenever the Miner is not running and no stop() is on its way, there
\* is no current stream.
C2_IdleHasNoStream ==
    ~is_running /\ (\A c \in Callers : cpc[c] \notin {"stop", "join"}) => current_stream = NoStream

\* C3: at most one loop thread is alive.
C3_OneLoopAlive == Cardinality({l \in Loops : pc[l] # "dead"}) <= 1

\* C5: after a watch request has failed, the next status emitted and stored
\* has no current stream.
C5_StatusAfterFailedWatch ==
    [][failed_watch /\ Statuses(out') # <<>> =>
          /\ Head(Statuses(out')).data.currentStream = NoStream
          /\ status'.current_stream = NoStream]_vars

\* C6: the status emitted by a switch of game reports no current stream and a
\* watch duration of 0.
C6_SwitchStatusIsClear ==
    Logged(out, "switching") =>
       /\ Statuses(out) # <<>>
       /\ Head(Statuses(out)).data.currentStream = NoStream
       /\ Head(Statuses(out)).data.watchDuration = 0

\* C7: a stop() that found the loop in its interval sleep has its join
\* returned after 2 seconds at most.
C7_StopFromSleepIsPrompt ==
    \A c \in Callers : cpc[c] = "join" /\ jsleep[c] => JoinTimeout - jtimer[c] <= 2

\* C8: when an event is published and the emit to exactly one subscriber
\* raises, every other subscriber receives the event and the subscriber set
\* afterwards is the set before without the failing one: for the status and
\* the log broadcast over every subscriber set reached, and for every step
\* of the Miner that publishes.
C8_OneFailureOthersServed ==
    /\ [](\A c \in ws_clients, order \in Orders(ws_clients) :
            LET r == broadcast_status_update(World, status, order, {c})
                e == LogEntry("INFO", "started")
                q == broadcast_log_update(World, e, {c})
            IN  /\ r.ws = ws_clients \ {c}
                /\ \A d \in ws_clients \ {c} : Received(r.inbox[d], StatusMessage(status))
                /\ ~Received(r.inbox[c], StatusMessage(status))
                /\ q.ws = ws_clients \ {c}
                /\ \A d \in ws_clients \ {c} : q.inbox[d] = <<LogMessage(e)>>)
    /\ [][\A c \in ws_clients :
            out' # <<>> /\ ws_clients' = ws_clients \ {c} =>
               \A d \in ws_clients', i \in 1..Len(out') : Received(inbox'[d], out'[i])]_vars

\* A step published a status to two subscribers, the emit to one of them
\* raised and the other one has the status.
C8_Witness ==
    /\ Logged(out, "send_failed")
    /\ Cardinality(ws_clients) = 1
    /\ \A d \in ws_clients : Received(inbox[d], StatusMessage(status))
    /\ \E c \in Clients \ ws_clients : inbox[c] # <<>>

\* The first id of the watch-list that is a key of the catalog, by position.
Selected(ids, catalog) ==
    LET known == {i \in 1..Len(ids) : ids[i] \in catalog}
    IN  IF known = {} THEN None
        ELSE ids[CHOOSE i \in known : \A j \in known : i <= j]

\* C9: the game an iteration selects is the first id of the watch-list that
\* is a key of the catalog, and an iteration selects no game exactly when no
\* id of the watch-list is one.
C9_FirstKnownGameSelected ==
    /\ [](\A ids \in WatchLists, catalog \in SUBSET GameIds :
            first_known(ids, catalog) = Selected(ids, catalog))
    /\ [](first_known(<<"gameA", "gameB">>, {"gameB"}) = "gameB")
    /\ [][\A l \in Loops :
            /\ LoopWork(l) => /\ lgame'[l] = Selected(settings_games, games)
                              /\ current_game' = Selected(settings_games, games)
            /\ LoopIdle(l) /\ is_logged_in => Selected(settings_games, games) = None]_vars

\* An iteration has selected gameB from a watch-list that starts with gameA.
C9_Witness ==
    /\ settings_games = <<"gameA", "gameB">> /\ games = {"gameB"}
    /\ \E l \in Loops : pc[l] = "switch" /\ lgame[l] = "gameB"
    /\ current_game = "gameB"

\* C10: a start() that finds the Miner running and a stop() that finds it
\* not running emit nothing and change nothing.
C10_StartStopIdempotent ==
    [][\A c \in Callers :
          \/ StartCheck(c) /\ is_running
          \/ StopCheck(c) /\ ~is_running
          => /\ out' = <<>> /\ inbox' = NoInbox
             /\ UNCHANGED <<minerVars, ws_clients, authVars, storeVars, loopVars, callerVars>>]_vars

\* The Miner runs, its loop is alive and no call is on its way: a start() now
\* is a call on a running Miner.
C10_Witness ==
    /\ is_running /\ alive(thread)
    /\ \A c \in Callers : cpc[c] = "idle"
    /\ out = <<>>
    /\ Len(logs) > 0

\* C11: the status a stop() emits when it returns reports a Miner that does
\* not run, with no current game, no current stream and a watch duration
\* of 0.
C11_StopStatusIsIdle ==
    Logged(out, "stopped") =>
       /\ Statuses(out) # <<>>
       /\ Head(Statuses(out)).data.isRunning = FALSE
       /\ Head(Statuses(out)).data.currentGame = None
       /\ Head(Statuses(out)).data.currentStream = NoStream
       /\ Head(Statuses(out)).data.watchDuration = 0
       /\ status.is_running = FALSE

\* C12: when the poll ends with a token the session is logged in: it holds
\* the token and is_logged_in is true.
C12_PollSuccessLogsIn ==
    [][PollState # "Authenticated" /\ PollState' = "Authenticated" =>
          access_token' # None /\ is_logged_in']_vars

\* C13: the session holds a token exactly when its logged-in flag is set.
C13_SessionAllOrNothing == (access_token # None) <=> logged_in_event

\* C17: once a device authorization is completed and the session keeps its
\* token, every iteration of a running Miner with a known game in its
\* watch-list goes on to a discovery or watch request.
C17_AuthorizedMinerWatches ==
    [][\A l \in Loops :
          /\ pc[l] = "iter" /\ pc'[l] # "iter"
          /\ is_running /\ ~stop_event
          /\ PollState = "Authenticated" /\ access_token # None
          /\ first_known(settings_games, games) # None
          => pc'[l] \in {"switch", "discover", "watch"}]_vars

\* C14: whenever no thread is between two assignments of stop() or of an
\* adoption, the watch start time is set exactly when a current stream is.
C14_SessionIffStream ==
    (\A l \in Loops : pc[l] # "adopt") /\ (\A c \in Callers : cpc[c] # "clear")
    => ((watch_elapsed # NoTime) <=> (current_stream # NoStream))

\* C15: a status that is emitted or stored names a current game only when
\* its running flag is set.
C15_GameOnlyWhenRunning ==
    /\ \A i \in 1..Len(Statuses(out)) :
          Statuses(out)[i].data.currentGame # None => Statuses(out)[i].data.isRunning
    /\ status.current_game # None => status.is_running

\* C16: a loop thread ends only when the Miner was told to stop.
C16_LoopEndsOnlyOnStop ==
    [][\A l \in Loops : pc[l] # "dead" /\ pc'[l] = "dead" => ~is_running \/ stop_event]_vars

\* C18: an iteration that starts while the session is not logged in sends
\* no discovery and no watch request, selects and switches nothing: it logs
\* the warning and goes to the interval sleep.
C18_LoggedOutIterationIdles ==
    [][\A l \in Loops :
          /\ pc[l] = "iter" /\ pc'[l] # "iter"
          /\ is_running /\ ~stop_event
          /\ ~(logged_in_event /\ access_token # None)
          => /\ pc'[l] = "sleep"
             /\ out' = <<LogMessage(LogEntry("WARNING", "not_logged_in"))>>
             /\ UNCHANGED <<current_game, current_stream, watch_elapsed, lgame, lstream, status>>]_vars

\* A logged-out iteration has logged its warning and sleeps, with a known
\* game in the watch-list.
C18_Witness ==
    /\ ~is_logged_in /\ first_known(settings_games, games) # None
    /\ \E l \in Loops : pc[l] = "sleep" /\ lticks[l] = WatchIntervalSeconds
    /\ out = <<LogMessage(LogEntry("WARNING", "not_logged_in"))>>

\* Whether the events of a are events of b in the order they have in b.
RECURSIVE InOrderOf(_, _)
InOrderOf(a, b) ==
    IF a = <<>> THEN TRUE
    ELSE IF b = <<>> THEN FALSE
    ELSE IF Head(a) = Head(b) THEN InOrderOf(Tail(a), Tail(b))
    ELSE InOrderOf(a, Tail(b))

\* C19: what a step delivers to a subscriber it delivers in the order in
\* which the step emitted it.
C19_DeliveredInEmissionOrder ==
    out # <<>> => \A d \in Clients : InOrderOf(inbox[d], out)

\* C20: a subscriber that has just registered, while no start() or stop() is
\* on its way and no loop is between the assignments of a game switch and
\* its status, has received one event, a status that shows the Miner's
\* running flag, current game and current stream as they are.
C20_ConnectShowsCurrentState ==
    \A cl \in Clients :
       /\ out = <<>> /\ inbox[cl] # <<>>
       /\ \A c \in Callers : cpc[c] = "idle"
       /\ \A l \in Loops : pc[l] # "switch"
       =>
          /\ Len(inbox[cl]) = 1
          /\ inbox[cl][1].type = "status"
          /\ inbox[cl][1].data.isRunning = is_running
          /\ inbox[cl][1].data.currentGame = current_game
          /\ inbox[cl][1].data.currentStream = current_stream

\* C22: whatever the token endpoint answers, the time a poll has spent
\* sleeping stays within the window of 300 seconds (requests taken as
\* instantaneous).
C22_PollEndsWithinWindow == poll_slept <= PollWindow

\* C23: a poll sends at most floor(300 / interval) token requests; when every
\* answer was authorization_pending it ends in Failed after exactly that
\* many; with an interval above 300 it ends in Failed without a request.
C23_AttemptBudget ==
    /\ p_sent <= PollWindow \div p_interval
    /\ p_pc = "done" /\ p_all_pending =>
          p_sent = PollWindow \div p_interval /\ PollState = "Failed"
    /\ p_interval > PollWindow /\ p_pc # "loop" =>
          p_sent = 0 /\ PollState = "Failed"
C23_Witness == p_pc = "done" /\ p_all_pending /\ p_sent = MaxAttempts /\ PollState = "Failed"

\* C24: an iteration that goes from its head straight to the interval sleep
\* (no game or stream work in between) has emitted a status.
C24_IterationEmitsStatus ==
    [][\A l \in Loops : pc[l] = "iter" /\ pc'[l] = "sleep" => Statuses(out') # <<>>]_vars

\* C30: when every answer of the poll before its latest token request was
\* slow_down, k of them, the wait before that request was interval * (1 + k).
C30_BackoffIsCumulative ==
    LET k == p_slow - (IF p_last = "slow_down" THEN 1 ELSE 0)
    IN  p_sent > 0 /\ k = p_sent - 1 => p_gap = p_interval * (1 + k)

\* C25: an iteration that finds a current stream watches it again, with no
\* discovery, exactly when its watch session is younger than 30 minutes;
\* from 30 minutes on it goes to discovery.
C25_LiveBelowHalfAnHour ==
    [][\A l \in Loops :
          pc[l] = "iter" /\ pc'[l] \in {"watch", "discover"} /\ current_stream # NoStream =>
             (pc'[l] = "watch" <=> watch_elapsed < 30 * 60)]_vars
C25_Witness ==
    \E l \in Loops : pc[l] = "discover" /\ current_stream = OldStream /\ watch_elapsed >= 30 * 60

\* C21: when no add_log is under way and fewer entries were added than the
\* log keeps, every entry added is in the stored log.
C21_EveryEntryPersisted ==
    (\A w \in Writers : wpc[w] = "idle") /\ Len(appended) <= LogCap =>
       /\ Len(logs) = Len(appended)
       /\ \A i \in 1..Len(appended) : \E j \in 1..Len(logs) : logs[j] = appended[i]

\* C29: after any sequence of add_log calls the stored log has at most the
\* cap's number of entries and is the newest of the entries added, in the
\* order they were added.
C29_NewestEntriesKept ==
    wpc[1] = "idle" =>
       /\ Len(logs) <= LogCap
       /\ LET n == Len(appended)
              k == IF n > LogCap THEN LogCap ELSE n
          IN  logs = [i \in 1..k |-> appended[n - k + i]]
C29_Witness == wpc[1] = "idle" /\ Len(appended) = MaxAppends /\ Len(logs) = LogCap

\* C26: a snapshot that was saved and pushed is read back from the store
\* equal field for field, and the message pushed carries all its fields:
\* every snapshot that makes the message pushed is the snapshot read back.
C26_StatusRoundTrip ==
    Len(out) = 1 =>
       \A st \in StatusInputs : StatusMessage(st) = out[1] => st = status

\* C27: a call of an operation of the table made while the session is not
\* logged in ends with the not-logged-in error and sends nothing to the
\* network.
C27_LoggedOutRequestRefused ==
    [][gql'.turn # gql.turn /\ ~is_logged_in /\ gql'.op \in gql_operations =>
          gql'.result = "not_logged_in" /\ gql'.sent = 0]_vars
C27_Witness == ~is_logged_in /\ gql.op \in gql_operations /\ gql.result = "not_logged_in"

\* C28: a wrapper whose operation is not in the persisted-query table ends
\* with the unknown-operation error and sends nothing to the network,
\* whichever wrapper it is and whatever the session holds.
C28_UnknownOperationRefused ==
    [][gql'.turn # gql.turn /\ gql'.op \notin gql_operations =>
          gql'.result = "unknown_operation" /\ gql'.sent = 0]_vars
C28_Witness == is_logged_in /\ gql.op \notin gql_operations /\ gql.result = "unknown_operation"

\* The answers poll_device_auth has no branch for.
TransientResponses == {"other_status", "unknown_error", "unparsable", "no_token", "exception"}

\* C31: an attempt answered by another status, an unknown or unparsable
\* error, a 200 without a token or a network exception leaves the poll
\* Pending and takes one attempt of the budget; and a Pending poll with
\* budget left goes on to its next request.
C31_TransientOutcomeRetried ==
    [][/\ p_pc = "request" /\ p_sent' = p_sent + 1 /\ p_last' \in TransientResponses =>
            PollState' = "Pending" /\ p_pc' = "loop" /\ p_attempt' = p_attempt + 1
       /\ p_pc = "loop" /\ p_attempt < PollWindow \div p_interval /\ p_pc' # "loop" =>
            p_pc' = "request" /\ PollState' = "Pending"]_vars
C31_Witness == p_pc = "request" /\ p_last \in TransientResponses /\ p_prev \in TransientResponses

\* C32: a watch request that a loop issues is for a stream, and that stream
\* is the current stream at the moment the request goes out.
C32_WatchRequestForCurrentStream ==
    [][\A l \in Loops :
          pc[l] # "watch" /\ pc'[l] = "watch" =>
             lstream'[l] # NoStream /\ lstream'[l] = current_stream']_vars

\* C33: when the discovery made for a stale current stream ends the
\* iteration (no candidate, or a failure), that stream is no longer the
\* current stream.
C33_StaleStreamDiscarded ==
    [][\A l \in Loops :
          /\ pc[l] = "discover" /\ pc'[l] \in {"sleep", "iter"}
          /\ current_stream # NoStream /\ watch_elapsed >= 30 * 60
          => current_stream' # current_stream]_vars

\* C35: a step that publishes events and loses a subscriber to a failed
\* delivery has emitted the warning log of the failure.
C35_FailureLogsWarning ==
    [][out' # <<>> /\ ws_clients' # ws_clients /\ ws_clients' \subseteq ws_clients =>
          Logged(out', "send_failed")]_vars

\* The warnings of failed status deliveries among the events o.
Warnings(o) == SelectSeq(o, LAMBDA m : m.type = "log" /\ m.data.message = "send_failed")

\* C40: a step that publishes a status ends with every subscriber that did
\* not get the status removed, with a warning when a subscriber that got
\* the step's log failed on the status, and with no more warnings than
\* subscribers removed: failures of the warning's own broadcast add none.
C40_PublishTerminates ==
    [][Statuses(out') # <<>> =>
          /\ \A c \in ws_clients :
                ~Received(inbox'[c], Statuses(out')[1]) => c \notin ws_clients'
          /\ \A c \in ws_clients :
                inbox'[c] # <<>> /\ ~Received(inbox'[c], Statuses(out')[1]) =>
                   Warnings(out') # <<>>
          /\ Len(Warnings(out')) <= Cardinality(ws_clients \ ws_clients')
          /\ Len(out') = 2 + Len(Warnings(out'))]_vars
C40_Witness ==
    /\ Statuses(out) # <<>>
    /\ Len(Warnings(out)) = MaxClients
    /\ ws_clients = {}

\* C36: a step of a poll that does not end it Authenticated, so every step of
\* a poll that ends Failed, leaves the session's token and flag and the
\* persisted auth record as they were.
C36_FailedPollKeepsAuth ==
    [][pollRun' # pollRun /\ PollState' # "Authenticated" =>
          UNCHANGED <<logged_in_event, access_token, auth_file>>]_vars
C36_Witness ==
    /\ PollState = "Failed" /\ p_sent > 0
    /\ access_token = "token" /\ auth_file = "token"

\* C37: while the poll that was under way at the last logout is the latest
\* one begun, the session's token and the persisted auth record stay empty.
C37_LogoutIsFinal ==
    p_orphan => access_token = None /\ auth_file = None

\* C39: an iteration that starts not logged in, with an empty watch-list or
\* with no watch-list id in the catalog, and goes to its sleep, leaves the
\* current game, the current stream and the watch session as they were.
C39_IdleIterationKeepsTarget ==
    [][\A l \in Loops :
          /\ pc[l] = "iter" /\ pc'[l] = "sleep"
          /\ \/ ~is_logged_in
             \/ settings_games = <<>>
             \/ first_known(settings_games, games) = None
          => UNCHANGED <<current_game, current_stream, watch_elapsed>>]_vars
C39_Witness ==
    /\ current_stream # NoStream
    /\ current_game # None /\ current_game \notin games
    /\ \A i \in 1..Len(settings_games) : settings_games[i] # current_game
    /\ Logged(out, "no_games") \/ Logged(out, "no_valid_games")
    /\ \E l \in Loops : pc[l] = "sleep"

\* C38: the status that handle_connect sends to a subscriber that is still
\* registered, and so has received every status broadcast since it was
\* added, is the stored status, the one last broadcast.
C38_InitialStatusIsLatest ==
    [][\A cl \in Clients :
          conn[cl].pc = "read" /\ conn'[cl].pc = "off" /\ cl \in ws_clients =>
             inbox'[cl] = <<StatusMessage(status)>>]_vars

\* C34: a broadcast loop delivers its message to subscribers of the set
\* registered when it started and to no other, whatever connects and
\* disconnects meanwhile, and it ends having been through exactly that set.
C34_PublishToSnapshot ==
    [][/\ pub.pc = "idle" /\ pub'.pc = "sending" => pub'.snapshot = ws_clients
       /\ pub.pc = "sending" =>
             \A c \in Clients : Received(inbox'[c], pub.msg) /\ pub'.visited # pub.visited =>
                c \in pub.snapshot
       /\ pub.pc = "sending" /\ pub'.pc = "idle" => pub.visited = pub.snapshot]_vars
C34_Witness ==
    /\ pub.pc = "sending" /\ pub.visited = pub.snapshot
    /\ \E c \in pub.snapshot \ ws_clients : Received(inbox[c], pub.msg)
    /\ ws_clients \ pub.snapshot # {}

=============================================================================
